---- MODULE Spec2Model ----
(***************************************************************************)
(* A model of epub-dude (src/main.rs): the bounded-retry fetcher           *)
(* fetch_with_backoff, the two html5ever token sinks (LinksSink for the    *)
(* listing page, ChapterSink for a chapter page) and the pipeline of main  *)
(* and process.                                                            *)
(*                                                                         *)
(* Strings are sequences of one-character strings, so that push_str,       *)
(* format! and str::replace are computed character by character.          *)
(***************************************************************************)
EXTENDS Integers, Sequences, FiniteSets, TLC

\* ------------------------------------------------------------------ bounds

\* Calls of fetch_with_backoff made in a row by the fetcher's specification.
MaxCalls == 2

\* Tokens fed to one LinksSink by the listing specification.
MaxListingTokens == 4

\* Tokens fed to one ChapterSink by the chapter specification.
MaxChapterTokens == 4

\* Tokens fed to the two sinks together by the specification of both.
MaxSinkTokens == 4

\* ------------------------------------------------------- program constants

\* let mut retries = 3;
InitialRetries == 3

\* let mut delay = time::Duration::from_millis(3000);
InitialDelayMs == 3000

\* thread::sleep(time::Duration::from_millis(900));
CourtesyDelayMs == 900

VARIABLES
    \* fetch_with_backoff: position, locals, and what one call has done so far
    fpc,          \* "idle" | "loop" | "get" | "done"
    retries,      \* the local `retries`
    delay,        \* the local `delay`, in ms
    answers,      \* what agent.get(path).call() answered, one entry per GET of this call
    sleeps,       \* the durations (ms) this call handed to thread::sleep, in order
    outcome,      \* "none" | "body" | "error" | "exhausted": how the call returned
    history,      \* the completed calls, oldest first: [answers, sleeps, outcome]
    path,         \* the argument `path` of the running call
    requests,     \* the transport's log: every GET issued, in order, as [path, attempt]
    \* one LinksSink and the tokens it has been fed so far
    linksSink,
    ltokens,
    \* one ChapterSink and the tokens it has been fed so far
    chapterSink,
    ctokens,
    \* main and process
    mpc,          \* main's position; "panicked" once an expect has failed
    ppc,          \* process's position: "none" | "fetch" | "read" | "parse"
    i,            \* the index of `for (i, item) in links.iter().enumerate()`
    links,        \* main's local `links`
    book,         \* the EpubBuilder: author, title and the contents added so far
    outputFile,   \* "absent" | "created" | "written"
    failure       \* what failed: "none" or the failing step

fetchVars == <<fpc, retries, delay, answers, sleeps, outcome, history, path, requests>>

listingVars == <<linksSink, ltokens>>

chapterVars == <<chapterSink, ctokens>>

mainVars == <<mpc, ppc, i, links, book, outputFile, failure>>

vars == <<fetchVars, listingVars, chapterVars, mainVars>>

\* The listing page's URL: args[1].
ListingUrl == <<"u">>

\* ---------------------------------------------------- fetch_with_backoff

\* What agent.get(path).call() can answer: Ok(resp), Err(StatusCode(429)),
\* another error status, or a transport error.
Responses == {"ok", "status429", "status500", "transport"}

\* The delay kept from the call before, as a static would be.
FetchBeginKeepingDelay ==
    /\ retries' = InitialRetries
    /\ delay' = IF delay = 0 THEN InitialDelayMs ELSE delay
    /\ answers' = <<>>
    /\ sleeps' = <<>>
    /\ outcome' = "none"
    /\ fpc' = "loop"

\* The locals at function entry (lines 231-232); the call has done nothing yet.
FetchBegin ==
    /\ retries' = InitialRetries
    /\ delay' = InitialDelayMs
    /\ answers' = <<>>
    /\ sleeps' = <<>>
    /\ outcome' = "none"
    /\ fpc' = "loop"

\* A caller calls fetch_with_backoff (again): the previous call, if any, is filed.
FetchCall ==
    /\ fpc \in {"idle", "done"}
    /\ Len(history) + (IF fpc = "done" THEN 1 ELSE 0) < MaxCalls
    /\ history' = IF fpc = "done"
                  THEN Append(history, [answers |-> answers, sleeps |-> sleeps,
                                        outcome |-> outcome])
                  ELSE history
    /\ FetchBegin
    /\ path' = ListingUrl
    /\ UNCHANGED <<requests, listingVars, chapterVars, mainVars>>

\* An off-by-one budget test: one more attempt than the budget allows.
BudgetLeftInclusive(r) == r >= 0

\* The budget test of `while retries > 0` (line 234).
BudgetLeft(r) == r > 0

\* while retries > 0 { ... } Err(anyhow!("max retries exceeded"))
FetchLoop ==
    /\ fpc = "loop"
    /\ IF BudgetLeft(retries)
       THEN /\ fpc' = "get"
            /\ outcome' = outcome
       ELSE /\ fpc' = "done"
            /\ outcome' = "exhausted"
    /\ UNCHANGED <<retries, delay, answers, sleeps, history, path, requests>>
    /\ UNCHANGED <<listingVars, chapterVars, mainVars>>

\* The body returned at once, without the courtesy delay.
OnOkNoDelay ==
    /\ outcome' = "body"
    /\ fpc' = "done"
    /\ UNCHANGED <<retries, delay, sleeps>>

\* Ok(resp) => { thread::sleep(900 ms); return Ok(body) }
OnOk ==
    /\ sleeps' = Append(sleeps, CourtesyDelayMs)
    /\ outcome' = "body"
    /\ fpc' = "done"
    /\ UNCHANGED <<retries, delay>>

\* The 429 arm without `retries -= 1`.
On429NoDecrement ==
    /\ sleeps' = Append(sleeps, delay)
    /\ delay' = delay * 2
    /\ fpc' = "loop"
    /\ UNCHANGED <<retries, outcome>>

\* Err(StatusCode(429)) => { thread::sleep(delay); delay *= 2; retries -= 1; }
On429 ==
    /\ sleeps' = Append(sleeps, delay)
    /\ delay' = delay * 2
    /\ retries' = retries - 1
    /\ fpc' = "loop"
    /\ UNCHANGED outcome

\* Every error retried like a 429, whatever its status.
OnOtherErrorRetried ==
    /\ sleeps' = Append(sleeps, delay)
    /\ delay' = delay * 2
    /\ retries' = retries - 1
    /\ fpc' = "loop"
    /\ UNCHANGED outcome

\* Err(e) => return Err(anyhow!(e))
OnOtherError ==
    /\ outcome' = "error"
    /\ fpc' = "done"
    /\ UNCHANGED <<retries, delay, sleeps>>

\* match agent.get(path).call() { ... }: one GET and the arm its answer selects.
FetchGet ==
    /\ fpc = "get"
    /\ \E r \in Responses :
        /\ requests' = Append(requests, [path |-> path, attempt |-> Len(answers) + 1])
        /\ answers' = Append(answers, r)
        /\ CASE r = "ok" -> OnOk
             [] r = "status429" -> On429
             [] OTHER -> OnOtherError
    /\ UNCHANGED <<history, path, listingVars, chapterVars, mainVars>>

FetchInit ==
    /\ fpc = "idle"
    /\ retries = 0
    /\ delay = 0
    /\ answers = <<>>
    /\ sleeps = <<>>
    /\ outcome = "none"
    /\ history = <<>>
    /\ path = <<>>
    /\ requests = <<>>


\* ---------------------------------------------------------------- tokens

\* html5ever's Token as the sinks read it: a TagToken of kind StartTag or EndTag
\* with its name and attributes, CharacterTokens with its text, or another
\* token (comment, doctype, null character, EOF, parse error).
Tok(kind, name, attrs, text) ==
    [kind |-> kind, name |-> name, attrs |-> attrs, text |-> text]

StartTag(name, attrs) == Tok("StartTag", name, attrs, <<>>)
EndTag(name) == Tok("EndTag", name, <<>>, <<>>)
Characters(text) == Tok("Characters", "", <<>>, text)
OtherToken == Tok("Other", "", <<>>, <<>>)

\* One attribute: its local name and its value.
Attr(name, value) == [name |-> name, value |-> value]

\* The string literals the sinks compare attribute values with, or build from.
StrAuthor == <<"a", "u", "t", "h", "o", "r">>
StrTitle == <<"t", "i", "t", "l", "e">>
StrChapterList == <<"c", "h", "a", "p", "t", "e", "r", "-", "l", "i", "s", "t">>
StrName == <<"n", "a", "m", "e">>
StrContent == <<"c", "o", "n", "t", "e", "n", "t">>
StrHttps == <<"h", "t", "t", "p", "s", ":">>
StrBr == <<"<", "b", "r", " ", "/", ">">>
Newline == "\n"
EmSpace == "U+2003"

\* ------------------------------------------------------------- LinksSink

\* #[derive(Default)] struct LinksSink
LinksSinkDefault ==
    [links |-> <<>>, author |-> <<>>, title |-> <<>>,
     found_author_tag |-> FALSE, found_author |-> FALSE,
     found_title |-> FALSE, found_links |-> FALSE]

\* The author span entering the author region itself, without waiting for the
\* anchor.
RECURSIVE SpanAttrsEnteringAuthor(_, _)
SpanAttrsEnteringAuthor(s, attrs) ==
    IF attrs = <<>> THEN s
    ELSE LET a == Head(attrs)
             t == IF a.name = "class" /\ a.value = StrAuthor
                  THEN [s EXCEPT !.found_author_tag = TRUE, !.found_author = TRUE]
                  ELSE IF a.name = "class" /\ a.value = StrTitle
                  THEN [s EXCEPT !.found_title = TRUE]
                  ELSE s
         IN SpanAttrsEnteringAuthor(t, Tail(attrs))

\* "span" => for attr in &tag.attrs { ("class","author") => found_author_tag,
\*                                    ("class","title") => found_title }
RECURSIVE SpanAttrs(_, _)
SpanAttrs(s, attrs) ==
    IF attrs = <<>> THEN s
    ELSE LET a == Head(attrs)
             t == IF a.name = "class" /\ a.value = StrAuthor
                  THEN [s EXCEPT !.found_author_tag = TRUE]
                  ELSE IF a.name = "class" /\ a.value = StrTitle
                  THEN [s EXCEPT !.found_title = TRUE]
                  ELSE s
         IN SpanAttrs(t, Tail(attrs))

\* The link pushed as the page gives it, without the protocol.
FormatLinkBare(value) == value

\* format!("https:{}", attr.value.as_ref())
FormatLink(value) == StrHttps \o value

\* for attr in &tag.attrs { if attr.name.local == "href" { links.push(format!(..)) } }
RECURSIVE PushHrefs(_, _)
PushHrefs(vec, attrs) ==
    IF attrs = <<>> THEN vec
    ELSE LET a == Head(attrs)
         IN PushHrefs(IF a.name = "href" THEN Append(vec, FormatLink(a.value))
                      ELSE vec,
                      Tail(attrs))

\* The match read in order on the marker alone: (true, _) => found_author,
\* (false, true) => push hrefs.
AnchorStartAuthorWins(s, attrs) ==
    IF s.found_author_tag
    THEN [s EXCEPT !.found_author = TRUE]
    ELSE IF s.found_links
    THEN [s EXCEPT !.links = PushHrefs(s.links, attrs)]
    ELSE s

\* "a" => match (found_author_tag, found_links) { (true,false) => found_author,
\*                                                (false,true) => push hrefs, _ => {} }
AnchorStart(s, attrs) ==
    IF s.found_author_tag /\ ~s.found_links
    THEN [s EXCEPT !.found_author = TRUE]
    ELSE IF ~s.found_author_tag /\ s.found_links
    THEN [s EXCEPT !.links = PushHrefs(s.links, attrs)]
    ELSE s

\* "ul" => for attr in &tag.attrs { if ("id","chapter-list") { found_links = true } }
RECURSIVE UlAttrs(_, _)
UlAttrs(s, attrs) ==
    IF attrs = <<>> THEN s
    ELSE LET a == Head(attrs)
         IN UlAttrs(IF a.name = "id" /\ a.value = StrChapterList
                    THEN [s EXCEPT !.found_links = TRUE]
                    ELSE s,
                    Tail(attrs))

\* The class markers read on any start tag, as ChapterSink reads them.
LinksStartTagAnyName(s, tag) ==
    CASE tag.name = "a" -> AnchorStart(s, tag.attrs)
      [] tag.name = "ul" -> UlAttrs(s, tag.attrs)
      [] OTHER -> SpanAttrs(s, tag.attrs)

\* TagKind::StartTag => match tag.name { "span", "a", "ul", _ }
LinksStartTag(s, tag) ==
    CASE tag.name = "span" -> SpanAttrs(s, tag.attrs)
      [] tag.name = "a" -> AnchorStart(s, tag.attrs)
      [] tag.name = "ul" -> UlAttrs(s, tag.attrs)
      [] OTHER -> s

\* The open region chosen by priority, author before title before link list,
\* whatever the other flags are.
LinksEndTagByPriority(s, tag) ==
    IF s.found_author
    THEN [s EXCEPT !.found_author = FALSE, !.found_author_tag = FALSE]
    ELSE IF s.found_title
    THEN [s EXCEPT !.found_title = FALSE]
    ELSE IF s.found_links
    THEN (IF tag.name = "ul" THEN [s EXCEPT !.found_links = FALSE] ELSE s)
    ELSE s

\* The author region's marker cleared and the region itself left open.
LinksEndTagKeepingMarker(s, tag) ==
    IF s.found_author /\ ~s.found_title /\ ~s.found_links
    THEN [s EXCEPT !.found_author_tag = FALSE]
    ELSE IF ~s.found_author /\ s.found_title /\ ~s.found_links
    THEN [s EXCEPT !.found_title = FALSE]
    ELSE IF ~s.found_author /\ ~s.found_title /\ s.found_links
    THEN (IF tag.name = "ul" THEN [s EXCEPT !.found_links = FALSE] ELSE s)
    ELSE s

\* The link list left on any end tag, as the other two regions are.
LinksEndTagAnyName(s, tag) ==
    IF s.found_author /\ ~s.found_title /\ ~s.found_links
    THEN [s EXCEPT !.found_author = FALSE, !.found_author_tag = FALSE]
    ELSE IF ~s.found_author /\ s.found_title /\ ~s.found_links
    THEN [s EXCEPT !.found_title = FALSE]
    ELSE IF ~s.found_author /\ ~s.found_title /\ s.found_links
    THEN [s EXCEPT !.found_links = FALSE]
    ELSE s

\* TagKind::EndTag => match (found_author, found_title, found_links)
LinksEndTag(s, tag) ==
    IF s.found_author /\ ~s.found_title /\ ~s.found_links
    THEN [s EXCEPT !.found_author = FALSE, !.found_author_tag = FALSE]
    ELSE IF ~s.found_author /\ s.found_title /\ ~s.found_links
    THEN [s EXCEPT !.found_title = FALSE]
    ELSE IF ~s.found_author /\ ~s.found_title /\ s.found_links
    THEN (IF tag.name = "ul" THEN [s EXCEPT !.found_links = FALSE] ELSE s)
    ELSE s

\* Text received with both regions open given to both fields.
LinksCharactersToBoth(s, text) ==
    IF s.found_author /\ ~s.found_title
    THEN [s EXCEPT !.author = text]
    ELSE IF ~s.found_author /\ s.found_title
    THEN [s EXCEPT !.title = text]
    ELSE IF s.found_author /\ s.found_title
    THEN [s EXCEPT !.author = text, !.title = text]
    ELSE s

\* The text runs accumulated with push_str, as ChapterSink's title is.
LinksCharactersAppended(s, text) ==
    IF s.found_author /\ ~s.found_title
    THEN [s EXCEPT !.author = s.author \o text]
    ELSE IF ~s.found_author /\ s.found_title
    THEN [s EXCEPT !.title = s.title \o text]
    ELSE s

\* Token::CharacterTokens(text) => match (found_author, found_title)
LinksCharacters(s, text) ==
    IF s.found_author /\ ~s.found_title
    THEN [s EXCEPT !.author = text]
    ELSE IF ~s.found_author /\ s.found_title
    THEN [s EXCEPT !.title = text]
    ELSE s

\* impl TokenSink for LinksSink: process_token
LinksProcessToken(s, token) ==
    CASE token.kind = "StartTag" -> LinksStartTag(s, token)
      [] token.kind = "EndTag" -> LinksEndTag(s, token)
      [] token.kind = "Characters" -> LinksCharacters(s, token.text)
      [] OTHER -> s

\* The sink after the tokenizer has fed it every token of a page, in order.
RECURSIVE LinksFeed(_, _)
LinksFeed(s, tokens) ==
    IF tokens = <<>> THEN s
    ELSE LinksFeed(LinksProcessToken(s, Head(tokens)), Tail(tokens))

\* The tokens the listing specification feeds.
ListingTokens ==
    { StartTag("span", <<Attr("class", StrAuthor)>>),
      StartTag("span", <<Attr("id", StrTitle), Attr("class", StrTitle)>>),
      StartTag("div", <<Attr("class", StrAuthor)>>),
      StartTag("a", <<Attr("href", <<"/", "a">>)>>),
      StartTag("a", <<Attr("class", StrAuthor), Attr("href", <<"/", "b">>)>>),
      StartTag("a", <<Attr("href", <<"/", "c">>)>>),
      StartTag("a", <<>>),
      StartTag("ul", <<Attr("class", StrTitle), Attr("id", StrChapterList)>>),
      StartTag("ul", <<Attr("id", StrAuthor)>>),
      EndTag("a"),
      EndTag("ul"),
      Characters(<<"A">>),
      Characters(<<"B">>),
      OtherToken }

\* The tokenizer hands the next token of the listing page to the sink.
ListingToken ==
    /\ Len(ltokens) < MaxListingTokens
    /\ \E t \in ListingTokens :
        /\ ltokens' = Append(ltokens, t)
        /\ linksSink' = LinksProcessToken(linksSink, t)
    /\ UNCHANGED <<fetchVars, chapterVars, mainVars>>

ListingInit ==
    /\ linksSink = LinksSinkDefault
    /\ ltokens = <<>>

\* ----------------------------------------------------------- ChapterSink

\* #[derive(Default)] struct ChapterSink
ChapterSinkDefault ==
    [found_name |-> FALSE, found_content |-> FALSE, title |-> <<>>, text |-> <<>>]

\* TagKind::StartTag => for attr in &tag.attrs { ("class","name") => found_name,
\*                                               ("class","content") => found_content }
RECURSIVE ChapterStartTag(_, _)
ChapterStartTag(s, attrs) ==
    IF attrs = <<>> THEN s
    ELSE LET a == Head(attrs)
             t == IF a.name = "class" /\ a.value = StrName
                  THEN [s EXCEPT !.found_name = TRUE]
                  ELSE IF a.name = "class" /\ a.value = StrContent
                  THEN [s EXCEPT !.found_content = TRUE]
                  ELSE s
         IN ChapterStartTag(t, Tail(attrs))

\* The end tag leaving the title region first, whatever the body flag.
ChapterEndTagTitleFirst(s) ==
    IF s.found_name
    THEN [s EXCEPT !.found_name = FALSE]
    ELSE IF s.found_content
    THEN [s EXCEPT !.found_content = FALSE]
    ELSE s

\* TagKind::EndTag => match (found_name, found_content)
ChapterEndTag(s) ==
    IF s.found_name /\ ~s.found_content
    THEN [s EXCEPT !.found_name = FALSE]
    ELSE IF ~s.found_name /\ s.found_content
    THEN [s EXCEPT !.found_content = FALSE]
    ELSE s

\* str::replace('\n', "<br />"): every newline, left to right.
RECURSIVE ReplaceNewlines(_)
ReplaceNewlines(text) ==
    IF text = <<>> THEN <<>>
    ELSE (IF Head(text) = Newline THEN StrBr ELSE <<Head(text)>>)
         \o ReplaceNewlines(Tail(text))

\* str::replace("\u{2003}", ""): every em-space, left to right.
RECURSIVE RemoveEmSpaces(_)
RemoveEmSpaces(text) ==
    IF text = <<>> THEN <<>>
    ELSE (IF Head(text) = EmSpace THEN <<>> ELSE <<Head(text)>>)
         \o RemoveEmSpaces(Tail(text))

\* Only the newlines replaced, the em-spaces left in.
TrimmedNewlinesOnly(text) == ReplaceNewlines(text)

\* let trimmed = text.replace('\n', "<br />").replace("\u{2003}", "");
Trimmed(text) == RemoveEmSpaces(ReplaceNewlines(text))

\* The title set to the run, as LinksSink sets its title.
PushTitleOverwriting(s, text) == [s EXCEPT !.title = text]

\* (true, false) => self.title.borrow_mut().push_str(text.as_ref())
PushTitle(s, text) == [s EXCEPT !.title = s.title \o text]

\* (false, true) => { if text.is_empty() { return Continue; }
\*                    self.text.borrow_mut().push_str(&trimmed) }
PushText(s, text) ==
    IF text = <<>> THEN s
    ELSE [s EXCEPT !.text = s.text \o Trimmed(text)]

\* The text given to the title whenever the title region is active.
ChapterCharactersTitleFirst(s, text) ==
    IF s.found_name
    THEN PushTitle(s, text)
    ELSE IF s.found_content
    THEN PushText(s, text)
    ELSE s

\* Token::CharacterTokens(text) => match (found_name, found_content)
ChapterCharacters(s, text) ==
    IF s.found_name /\ ~s.found_content
    THEN PushTitle(s, text)
    ELSE IF ~s.found_name /\ s.found_content
    THEN PushText(s, text)
    ELSE s

\* impl TokenSink for ChapterSink: process_token
ChapterProcessToken(s, token) ==
    CASE token.kind = "StartTag" -> ChapterStartTag(s, token.attrs)
      [] token.kind = "EndTag" -> ChapterEndTag(s)
      [] token.kind = "Characters" -> ChapterCharacters(s, token.text)
      [] OTHER -> s

\* The sink after the tokenizer has fed it every token of a page, in order.
RECURSIVE ChapterFeed(_, _)
ChapterFeed(s, tokens) ==
    IF tokens = <<>> THEN s
    ELSE ChapterFeed(ChapterProcessToken(s, Head(tokens)), Tail(tokens))

\* The tokens the chapter specification feeds.
ChapterTokens ==
    { StartTag("h1", <<Attr("class", StrName)>>),
      StartTag("div", <<Attr("id", StrName), Attr("class", StrContent)>>),
      StartTag("p", <<Attr("class", StrTitle)>>),
      EndTag("p"),
      Characters(<<"C", "h", ".">>),
      Characters(<<" ", "1">>),
      Characters(<<"x", Newline, EmSpace, "y">>),
      Characters(<<EmSpace, Newline, Newline>>),
      Characters(<<>>),
      OtherToken }

\* The tokenizer hands the next token of the chapter page to the sink.
ChapterToken ==
    /\ Len(ctokens) < MaxChapterTokens
    /\ \E t \in ChapterTokens :
        /\ ctokens' = Append(ctokens, t)
        /\ chapterSink' = ChapterProcessToken(chapterSink, t)
    /\ UNCHANGED <<fetchVars, listingVars, mainVars>>

ChapterInit ==
    /\ chapterSink = ChapterSinkDefault
    /\ ctokens = <<>>

\* ------------------------------------------------------- main and process

\* The listing pages the transport can serve, as the tokens of each.
ListingPages ==
    { <<StartTag("span", <<Attr("class", StrTitle)>>), Characters(<<"T">>), EndTag("span")>>,
      <<StartTag("span", <<Attr("class", StrAuthor)>>), StartTag("a", <<>>),
        Characters(<<"A">>), EndTag("a"),
        StartTag("ul", <<Attr("id", StrChapterList)>>),
        StartTag("a", <<Attr("href", <<"/", "a">>)>>), EndTag("a"), EndTag("ul")>>,
      <<StartTag("ul", <<Attr("id", StrChapterList)>>),
        StartTag("a", <<Attr("href", <<"/", "a">>)>>),
        StartTag("a", <<Attr("href", <<"/", "b">>)>>), EndTag("ul")>> }

\* The chapter pages the transport can serve, as the tokens of each.
ChapterPages ==
    { <<>>,
      <<StartTag("h1", <<Attr("class", StrName)>>), Characters(<<"C">>), EndTag("h1"),
        StartTag("div", <<Attr("class", StrContent)>>), Characters(<<"x", Newline>>)>> }

\* The error noted and the run carried on, as an ignored Result would.
ExpectIgnored(ok, next, what) ==
    [mpc |-> next, failure |-> IF ok THEN "none" ELSE what]

\* Result::expect(what): go on to `next`, or panic.
Expect(ok, next, what) ==
    IF ok THEN [mpc |-> next, failure |-> "none"]
    ELSE [mpc |-> "panicked", failure |-> what]

\* The position at which main creates the output file: after the chapter loop
\* (lines 202-204).
AfterLoop == "create"

\* EpubBuilder::new(ZipCommand::new().expect(..)).expect(..); book.epub_version(..)
MainStart ==
    /\ mpc = "start"
    /\ \E ok \in BOOLEAN :
        LET e == Expect(ok, "listing", "builder")
        IN mpc' = e.mpc /\ failure' = e.failure
    /\ UNCHANGED <<ppc, i, links, book, outputFile>>
    /\ UNCHANGED <<fetchVars, listingVars, chapterVars>>

\* process(&agent, path): let mut resp = fetch_with_backoff(agent, path)
ProcessCall ==
    /\ mpc \in {"listing", "chapter"}
    /\ ppc = "none"
    /\ ppc' = "fetch"
    /\ path' = IF mpc = "listing" THEN ListingUrl ELSE links[i + 1]
    /\ FetchBegin
    /\ UNCHANGED <<mpc, i, links, book, outputFile, failure>>
    /\ UNCHANGED <<history, requests, listingVars, chapterVars>>

\* fetch_with_backoff(agent, path)? : the body, or process returns the error
\* and main's expect panics.
ProcessFetched ==
    /\ ppc = "fetch"
    /\ fpc = "done"
    /\ LET e == Expect(outcome = "body", mpc, "fetch")
       IN /\ mpc' = e.mpc
          /\ failure' = e.failure
          /\ ppc' = IF outcome = "body" THEN "read" ELSE "none"
    /\ UNCHANGED <<i, links, book, outputFile>>
    /\ UNCHANGED <<fetchVars, listingVars, chapterVars>>

\* resp.read_to_tendril(&mut chunk)?; chunk.try_reinterpret().map_err(..)?
ProcessRead ==
    /\ ppc = "read"
    /\ \E r \in {"ok", "read", "decode"} :
        LET e == Expect(r = "ok", mpc, r)
        IN /\ mpc' = e.mpc
           /\ failure' = e.failure
           /\ ppc' = IF r = "ok" THEN "parse" ELSE "none"
    /\ UNCHANGED <<i, links, book, outputFile>>
    /\ UNCHANGED <<fetchVars, listingVars, chapterVars>>

\* process::<LinksSink>: T::default(), tok.feed, tok.end, Ok(tok.sink); then main's
\* book.add_author(info.author), book.set_title(title), links = info.links.
ProcessListing ==
    /\ ppc = "parse"
    /\ mpc = "listing"
    /\ \E page \in ListingPages :
        LET info == LinksFeed(LinksSinkDefault, page)
        IN /\ ltokens' = page
           /\ linksSink' = info
           /\ book' = [book EXCEPT !.author = info.author, !.title = info.title]
           /\ links' = info.links
    /\ ppc' = "none"
    /\ mpc' = "loop"
    /\ i' = 0
    /\ UNCHANGED <<outputFile, failure>>
    /\ UNCHANGED <<fetchVars, chapterVars>>

\* for (i, item) in links.iter().enumerate() { ... } book.inline_toc();
MainLoop ==
    /\ mpc = "loop"
    /\ mpc' = IF i < Len(links) THEN "chapter" ELSE AfterLoop
    /\ UNCHANGED <<ppc, i, links, book, outputFile, failure>>
    /\ UNCHANGED <<fetchVars, listingVars, chapterVars>>

\* process::<ChapterSink>: T::default(), tok.feed, tok.end, Ok(tok.sink)
ProcessChapter ==
    /\ ppc = "parse"
    /\ mpc = "chapter"
    /\ \E page \in ChapterPages :
        /\ ctokens' = page
        /\ chapterSink' = ChapterFeed(ChapterSinkDefault, page)
    /\ ppc' = "none"
    /\ mpc' = "add"
    /\ UNCHANGED <<i, links, book, outputFile, failure>>
    /\ UNCHANGED <<fetchVars, listingVars>>

\* book.add_content(EpubContent::new(format!("{i}.xhtml"), ..).title(title)..)
\*     .expect("create chapter failed")
MainAddContent ==
    /\ mpc = "add"
    /\ \E ok \in BOOLEAN :
        LET e == Expect(ok, "loop", "assembly")
        IN /\ mpc' = e.mpc
           /\ failure' = e.failure
           /\ book' = IF ok
                      THEN [book EXCEPT !.contents =
                               Append(@, [file |-> i, item |-> links[i + 1],
                                          title |-> chapterSink.title,
                                          text |-> chapterSink.text])]
                      ELSE book
           /\ i' = IF e.mpc = "loop" THEN i + 1 ELSE i
    /\ UNCHANGED <<ppc, links, outputFile>>
    /\ UNCHANGED <<fetchVars, listingVars, chapterVars>>

\* File::create(format!("{title}.epub")).expect("create epub file failed")
MainCreate ==
    /\ mpc = "create"
    /\ \E ok \in BOOLEAN :
        LET e == Expect(ok, "generate", "create")
        IN /\ mpc' = e.mpc
           /\ failure' = e.failure
           /\ outputFile' = IF ok THEN "created" ELSE outputFile
    /\ UNCHANGED <<ppc, i, links, book>>
    /\ UNCHANGED <<fetchVars, listingVars, chapterVars>>

\* book.generate(&mut output_file).expect("epub generate failed")
MainGenerate ==
    /\ mpc = "generate"
    /\ \E ok \in BOOLEAN :
        LET e == Expect(ok, "done", "generate")
        IN /\ mpc' = e.mpc
           /\ failure' = e.failure
           /\ outputFile' = IF ok THEN "written" ELSE outputFile
    /\ UNCHANGED <<ppc, i, links, book>>
    /\ UNCHANGED <<fetchVars, listingVars, chapterVars>>

\* The fetcher's steps while process waits in fetch_with_backoff.
ProcessFetching ==
    /\ ppc = "fetch"
    /\ (FetchLoop \/ FetchGet)

MainInit ==
    /\ mpc = "start"
    /\ ppc = "none"
    /\ i = 0
    /\ links = <<>>
    /\ book = [author |-> <<>>, title |-> <<>>, contents |-> <<>>]
    /\ outputFile = "absent"
    /\ failure = "none"

MainNext ==
    \/ MainStart
    \/ ProcessCall
    \/ ProcessFetching
    \/ ProcessFetched
    \/ ProcessRead
    \/ ProcessListing
    \/ MainLoop
    \/ ProcessChapter
    \/ MainAddContent
    \/ MainCreate
    \/ MainGenerate

Init == FetchInit /\ ListingInit /\ ChapterInit /\ MainInit

FetchNext == FetchCall \/ FetchLoop \/ FetchGet

\* The fetcher alone, called MaxCalls times in a row.
SpecFetch == Init /\ [][FetchNext]_vars

\* The same, with a running call going on: the thread is never descheduled for
\* good, every sleep ends and every GET is answered.
SpecFetchFair == SpecFetch /\ WF_vars(FetchLoop) /\ WF_vars(FetchGet)

\* One LinksSink fed up to MaxListingTokens tokens.
SpecListing == Init /\ [][ListingToken]_vars

\* One ChapterSink fed up to MaxChapterTokens tokens.
SpecChapter == Init /\ [][ChapterToken]_vars

\* One run of main.
SpecMain == Init /\ [][MainNext]_vars

\* A token handed to either sink, MaxSinkTokens tokens in all.
SinkToken ==
    /\ Len(ltokens) + Len(ctokens) < MaxSinkTokens
    /\ (ListingToken \/ ChapterToken)

\* One LinksSink and one ChapterSink, each fed by its own tokenizer.
SpecSinks == Init /\ [][SinkToken]_vars


\* ================================================================ claims

\* The last element of a non-empty sequence.
Last(s) == s[Len(s)]

\* Whether p is a prefix of s.
IsPrefix(p, s) == Len(p) <= Len(s) /\ SubSeq(s, 1, Len(p)) = p

\* Whether every element of the sequence s is x.
AllAre(s, x) == \A k \in DOMAIN s : s[k] = x

\* ---------------------------------------------------------------- fetcher

\* C1: in a call whose first three GETs are answered 429 (and whose fourth
\* would be answered with success), the fetcher sleeps 3000, 6000 and 12000 ms,
\* issues the fourth GET and returns its body: the finished call has made four
\* GETs, ended in success, and slept the three doubling delays and then the
\* courtesy delay.
C1_ThreeRetriesThenBody ==
    (/\ fpc = "done"
     /\ Len(answers) >= 3
     /\ AllAre(SubSeq(answers, 1, 3), "status429"))
    => /\ outcome = "body"
       /\ answers = <<"status429", "status429", "status429", "ok">>
       /\ sleeps = <<3000, 6000, 12000, 900>>

\* C2: a call in which every GET is answered 429 returns the 'max retries
\* exceeded' error, with the budget at zero after exactly InitialRetries GETs;
\* and while the budget of a call is zero the call is never at a GET again.
C2_ExhaustedAfterBudget ==
    /\ (fpc = "done" /\ answers # <<>> /\ AllAre(answers, "status429"))
       => (outcome = "exhausted" /\ retries = 0 /\ Len(answers) = InitialRetries)
    /\ outcome = "exhausted"
       => (fpc = "done" /\ retries = 0 /\ AllAre(answers, "status429"))
    /\ (fpc # "idle" /\ retries = 0)
       => (fpc \in {"loop", "done"} /\ Len(answers) = InitialRetries)
    /\ (fpc # "idle" /\ retries = 0 /\ fpc = "done") => outcome = "exhausted"

\* C2's case: a call ended by the exhausted budget.
C2_Witness == fpc = "done" /\ outcome = "exhausted" /\ Len(answers) = 3

\* The answers that are neither success nor 429.
IsOtherError(r) == r \notin {"ok", "status429"}

\* C3: a GET that fails with anything but 429 ends the call with that error at
\* once: it is the call's last GET, nothing was slept for it (only the backoff
\* of each earlier 429, never the courtesy delay), and the budget stands where
\* the earlier 429s left it.
C3_OtherErrorImmediate ==
    /\ \A k \in DOMAIN answers :
          IsOtherError(answers[k])
          => /\ k = Len(answers)
             /\ fpc = "done"
             /\ outcome = "error"
             /\ AllAre(SubSeq(answers, 1, k - 1), "status429")
             /\ Len(sleeps) = k - 1
             /\ \A j \in DOMAIN sleeps : sleeps[j] # CourtesyDelayMs
             /\ retries = InitialRetries - (k - 1)
    /\ outcome = "error" => (answers # <<>> /\ IsOtherError(Last(answers)))

\* C3's case: a non-429 error at a later attempt, after one backoff.
C3_Witness ==
    /\ outcome = "error"
    /\ answers = <<"status429", "transport">>
    /\ sleeps = <<3000>>

\* ------------------------------------------------------ listing extractor

\* Whether the token is a start tag of this name.
IsStart(t, name) == t.kind = "StartTag" /\ t.name = name

\* Whether the tag carries this attribute with this value.
HasAttr(t, name, value) == \E k \in DOMAIN t.attrs : t.attrs[k] = Attr(name, value)

\* The markers of the three regions.
IsAuthorSpan(t) == IsStart(t, "span") /\ HasAttr(t, "class", StrAuthor)
IsTitleSpan(t) == IsStart(t, "span") /\ HasAttr(t, "class", StrTitle)
IsChapterListUl(t) == IsStart(t, "ul") /\ HasAttr(t, "id", StrChapterList)

\* The token the listing sink received last, in a step that fed it one.
ListingFed == Len(ltokens') = Len(ltokens) + 1
ListingLast == ltokens'[Len(ltokens')]

\* The values of the href attributes of an `a` start tag, in order.
Hrefs(t) ==
    IF IsStart(t, "a")
    THEN LET h == SelectSeq(t.attrs, LAMBDA a : a.name = "href")
         IN [k \in 1..Len(h) |-> h[k].value]
    ELSE <<>>

\* The links a run of tokens inside the link list stands for: for every `a`
\* start tag, in order, "https:" followed by the value of each href it carries.
RECURSIVE ExpectedLinks(_)
ExpectedLinks(tokens) ==
    IF tokens = <<>> THEN <<>>
    ELSE LET h == Hrefs(Head(tokens))
         IN [k \in 1..Len(h) |-> <<"h", "t", "t", "p", "s", ":">> \o h[k]]
            \o ExpectedLinks(Tail(tokens))

\* What C4 lets follow the list's `ul`: `a` start tags, text, non-`ul` end tags.
InsideList(t) ==
    \/ IsStart(t, "a")
    \/ t.kind = "Characters"
    \/ (t.kind = "EndTag" /\ t.name # "ul")

\* C4: once a `ul` start tag with id="chapter-list" has been processed and has
\* left the author-tag marker unset and the author and title regions inactive,
\* any run of `a` start tags, text tokens and non-`ul` end tags appends exactly
\* "https:" + href for each anchor, in document order, duplicates kept; from
\* the initial state the hrefs /a, /b, /c give [https:/a, https:/b, https:/c].
C4_LinksInDocumentOrder ==
    /\ \A k \in 1..Len(ltokens) :
          LET before == LinksFeed(LinksSinkDefault, SubSeq(ltokens, 1, k))
              run == SubSeq(ltokens, k + 1, Len(ltokens))
          IN (/\ IsChapterListUl(ltokens[k])
              /\ ~before.found_author_tag
              /\ ~before.found_author
              /\ ~before.found_title
              /\ \A j \in DOMAIN run : InsideList(run[j]))
             => linksSink.links = before.links \o ExpectedLinks(run)
    /\ (/\ Len(ltokens) = 4
        /\ IsChapterListUl(ltokens[1])
        /\ Hrefs(ltokens[2]) = << <<"/", "a">> >>
        /\ Hrefs(ltokens[3]) = << <<"/", "b">> >>
        /\ Hrefs(ltokens[4]) = << <<"/", "c">> >>)
       => linksSink.links = << <<"h", "t", "t", "p", "s", ":", "/", "a">>,
                               <<"h", "t", "t", "p", "s", ":", "/", "b">>,
                               <<"h", "t", "t", "p", "s", ":", "/", "c">> >>

\* C4's case: the list opened, then the anchors /a, /b, /c, all three captured.
C4_Witness ==
    /\ Len(ltokens) = 4
    /\ IsChapterListUl(ltokens[1])
    /\ Hrefs(ltokens[2]) = << <<"/", "a">> >>
    /\ Hrefs(ltokens[3]) = << <<"/", "b">> >>
    /\ Hrefs(ltokens[4]) = << <<"/", "c">> >>
    /\ linksSink.links = << <<"h", "t", "t", "p", "s", ":", "/", "a">>,
                            <<"h", "t", "t", "p", "s", ":", "/", "b">>,
                            <<"h", "t", "t", "p", "s", ":", "/", "c">> >>

\* C5: a text token received while found_author is true and found_title is
\* not overwrites author with exactly its content, and one received while
\* found_title is true and found_author is not overwrites title likewise; so
\* an author span, an anchor and the text runs "A" then "B" leave author "B".
C5_TextOverwrites ==
    /\ [][(ListingFed /\ ListingLast.kind = "Characters")
          => /\ (linksSink.found_author /\ ~linksSink.found_title)
                => linksSink'.author = ListingLast.text
             /\ (linksSink.found_title /\ ~linksSink.found_author)
                => linksSink'.title = ListingLast.text]_vars
    /\ [](ltokens = <<StartTag("span", <<Attr("class", StrAuthor)>>), StartTag("a", <<>>),
                      Characters(<<"A">>), Characters(<<"B">>)>>
          => linksSink.author = <<"B">>)

\* C5's case: two text runs in the author's anchor, the second one kept.
C5_Witness ==
    /\ Len(ltokens) = 4
    /\ IsAuthorSpan(ltokens[1])
    /\ IsStart(ltokens[2], "a")
    /\ ltokens[3] = Characters(<<"A">>)
    /\ ltokens[4] = Characters(<<"B">>)
    /\ linksSink.found_author
    /\ linksSink.author = <<"B">>

\* Whether a token sequence holds none of the three region markers.
NoMarkers(tokens) ==
    \A k \in DOMAIN tokens :
        ~IsAuthorSpan(tokens[k]) /\ ~IsTitleSpan(tokens[k]) /\ ~IsChapterListUl(tokens[k])

\* C8: as long as no `span` with class="author", no `span` with class="title"
\* and no `ul` with id="chapter-list" has been received, the four flags are
\* false and author, title and links are empty.
C8_NoMarkersNothingExtracted ==
    NoMarkers(ltokens)
    => /\ ~linksSink.found_author_tag
       /\ ~linksSink.found_author
       /\ ~linksSink.found_title
       /\ ~linksSink.found_links
       /\ linksSink.author = <<>>
       /\ linksSink.title = <<>>
       /\ linksSink.links = <<>>

\* C8's case: a page without markers that still holds a start tag with a
\* class, an anchor with an href and a text run.
C8_Witness ==
    /\ NoMarkers(ltokens)
    /\ \E k \in DOMAIN ltokens : IsStart(ltokens[k], "div") /\ HasAttr(ltokens[k], "class", StrAuthor)
    /\ \E k \in DOMAIN ltokens : Hrefs(ltokens[k]) # <<>>
    /\ \E k \in DOMAIN ltokens : ltokens[k].kind = "Characters"
    /\ \E k \in DOMAIN ltokens : ltokens[k].kind = "EndTag"

\* An `a` start tag received while the author-tag marker is set and the link
\* list is active.
AnchorInBoth ==
    /\ ListingFed
    /\ IsStart(ListingLast, "a")
    /\ linksSink.found_author_tag
    /\ linksSink.found_links

\* C10 as stated: on such an anchor the author branch fires: found_author
\* becomes true and no link is appended.
C10_AuthorWins ==
    [][AnchorInBoth => (linksSink'.found_author /\ linksSink'.links = linksSink.links)]_vars

\* C10 as the code has it: on such an anchor neither branch fires: found_author
\* keeps its value, no link is appended, and nothing else of the sink changes.
C10_NeitherBranchFires ==
    [][AnchorInBoth => linksSink' = linksSink]_vars

\* C10's case: marker set, list active, then an anchor with an href: the
\* author region is not entered and the href is not captured.
C10_Witness ==
    /\ Len(ltokens) = 3
    /\ IsAuthorSpan(ltokens[1])
    /\ IsChapterListUl(ltokens[2])
    /\ Hrefs(ltokens[3]) # <<>>
    /\ linksSink.found_author_tag
    /\ linksSink.found_links
    /\ ~linksSink.found_author
    /\ linksSink.links = <<>>

\* ------------------------------------------------------ chapter extractor

\* The token the chapter sink received last, in a step that fed it one.
ChapterFed == Len(ctokens') = Len(ctokens) + 1
ChapterLast == ctokens'[Len(ctokens')]

\* A text token received while the title region is active and the body is not.
TitleText ==
    /\ ChapterFed
    /\ ChapterLast.kind = "Characters"
    /\ chapterSink.found_name
    /\ ~chapterSink.found_content

\* C6: a text token received while found_name is true and found_content is not
\* is appended verbatim to the title; no other token changes the title, so it
\* is never overwritten or shortened and ends as the concatenation of those
\* runs in document order: the runs "Ch." and " 1" give "Ch. 1".
C6_TitleConcatenated ==
    /\ [][TitleText => chapterSink'.title = chapterSink.title \o ChapterLast.text]_vars
    /\ [][~TitleText => chapterSink'.title = chapterSink.title]_vars
    /\ [][IsPrefix(chapterSink.title, chapterSink'.title)]_vars
    /\ [](ctokens = <<StartTag("h1", <<Attr("class", StrName)>>),
                      Characters(<<"C", "h", ".">>), Characters(<<" ", "1">>)>>
          => chapterSink.title = <<"C", "h", ".", " ", "1">>)

\* C6's case: two text runs in the title region, both kept, in order.
C6_Witness ==
    /\ Len(ctokens) = 3
    /\ HasAttr(ctokens[1], "class", StrName)
    /\ ctokens[2] = Characters(<<"C", "h", ".">>)
    /\ ctokens[3] = Characters(<<" ", "1">>)
    /\ chapterSink.title = <<"C", "h", ".", " ", "1">>

\* C7's T: character by character, a newline becomes `<br />`, an em-space
\* becomes nothing, anything else stays.
RECURSIVE BodyTransform(_)
BodyTransform(text) ==
    IF text = <<>> THEN <<>>
    ELSE (CASE Head(text) = "\n" -> <<"<", "b", "r", " ", "/", ">">>
            [] Head(text) = "U+2003" -> <<>>
            [] OTHER -> <<Head(text)>>)
         \o BodyTransform(Tail(text))

\* A text token received while the body region is active and the title is not.
BodyText ==
    /\ ChapterFed
    /\ ChapterLast.kind = "Characters"
    /\ chapterSink.found_content
    /\ ~chapterSink.found_name

\* C7: a text token t received while found_content is true and found_name is
\* not leaves the body equal to the body before it followed by T(t), whatever
\* the order of newlines and em-spaces in t; an empty t leaves it unchanged.
C7_BodyTransformed ==
    /\ [][BodyText => chapterSink'.text = chapterSink.text \o BodyTransform(ChapterLast.text)]_vars
    /\ [][(BodyText /\ ChapterLast.text = <<>>) => chapterSink'.text = chapterSink.text]_vars

\* C7's case: body runs with an em-space before and after a newline, and an
\* empty run, all received in the body region.
C7_Witness ==
    /\ Len(ctokens) = 4
    /\ HasAttr(ctokens[1], "class", StrContent)
    /\ ctokens[2] = Characters(<<EmSpace, Newline, Newline>>)
    /\ ctokens[3] = Characters(<<>>)
    /\ ctokens[4] = Characters(<<"x", Newline, EmSpace, "y">>)
    /\ chapterSink.text = <<"<", "b", "r", " ", "/", ">", "<", "b", "r", " ", "/", ">",
                            "x", "<", "b", "r", " ", "/", ">", "y">>

\* --------------------------------------------------------------- pipeline

\* The paths fetch_with_backoff was called with, in order: the path of every
\* first attempt in the transport's log.
RECURSIVE FetchedPaths(_)
FetchedPaths(log) ==
    IF log = <<>> THEN <<>>
    ELSE (IF Head(log).attempt = 1 THEN <<Head(log).path>> ELSE <<>>)
         \o FetchedPaths(Tail(log))

\* The pages of a complete run, in order: the listing, then every link.
Plan == <<ListingUrl>> \o links

\* The failures C9 names: a fetch, a read or decoding, an assembly.
PageFailures == {"fetch", "read", "decode", "assembly"}

\* C9: the output file exists only once the listing and every link, in link
\* order, has been fetched, extracted and added to the book without a failure;
\* pages are only ever fetched in that order; and a failed fetch, read,
\* decoding or assembly ends the run there: the failed page is the last one
\* fetched, every page before it was added, and the output file does not exist.
C9_NoPartialOutput ==
    /\ outputFile # "absent"
       => /\ failure \notin PageFailures
          /\ FetchedPaths(requests) = Plan
          /\ Len(book.contents) = Len(links)
          /\ \A k \in DOMAIN links :
                book.contents[k].item = links[k] /\ book.contents[k].file = k - 1
    /\ mpc # "start" => IsPrefix(FetchedPaths(requests), Plan)
    /\ failure \in PageFailures
       => /\ mpc = "panicked"
          /\ outputFile = "absent"
          /\ Len(FetchedPaths(requests)) <= Len(book.contents) + 2
          /\ (links # <<>> => Len(FetchedPaths(requests)) = Len(book.contents) + 2)
    /\ mpc = "panicked" /\ failure \in PageFailures => ppc = "none"

\* C9's case, the complete run: two chapters fetched and added, the file made.
C9_Witness ==
    /\ outputFile = "written"
    /\ Len(links) = 2
    /\ Len(book.contents) = 2
    /\ \E k \in DOMAIN requests : requests[k].attempt > 1

\* C9's other case: the second chapter's fetch failed after the first chapter
\* was added; no file.
C9_AbortWitness ==
    /\ mpc = "panicked"
    /\ failure = "fetch"
    /\ Len(links) = 2
    /\ Len(book.contents) = 1
    /\ outputFile = "absent"

\* ------------------------------------------- listing extractor, continued

\* C11: found_author turns from false to true only in a step that feeds an `a`
\* start tag while the author-tag marker is set and found_links is false; and
\* a text token received while found_author is false (so also between the
\* author span and its anchor) leaves author as it was.
C11_AuthorEnteredByAnchor ==
    /\ [][(~linksSink.found_author /\ linksSink'.found_author)
          => /\ ListingFed
             /\ IsStart(ListingLast, "a")
             /\ linksSink.found_author_tag
             /\ ~linksSink.found_links]_vars
    /\ [][(ListingFed /\ ListingLast.kind = "Characters" /\ ~linksSink.found_author)
          => linksSink'.author = linksSink.author]_vars

\* C11's case: text after the author span but before the anchor is not taken,
\* the anchor then enters the region and the next text is.
C11_Witness ==
    /\ Len(ltokens) = 4
    /\ IsAuthorSpan(ltokens[1])
    /\ ltokens[2] = Characters(<<"A">>)
    /\ IsStart(ltokens[3], "a")
    /\ ltokens[4] = Characters(<<"B">>)
    /\ linksSink.found_author
    /\ linksSink.author = <<"B">>

\* The flags of a LinksSink.
LinksFlags(s) == <<s.found_author_tag, s.found_author, s.found_title, s.found_links>>

\* An end tag received by the listing sink.
ListingEnd == ListingFed /\ ListingLast.kind = "EndTag"

\* C12: on an end tag, (found_author, found_title, found_links) being
\* (true, false, false) clears found_author and the author-tag marker whatever
\* the name; (false, true, false) clears found_title whatever the name;
\* (false, false, true) clears found_links if the name is `ul` and changes no
\* flag otherwise; any other combination changes no flag. And found_links
\* turns false only in a step that feeds a `ul` end tag.
C12_RegionExit ==
    /\ [][ListingEnd =>
          LET s == linksSink
              exit == <<s.found_author, s.found_title, s.found_links>>
          IN LinksFlags(linksSink') =
                CASE exit = <<TRUE, FALSE, FALSE>> ->
                        <<FALSE, FALSE, s.found_title, s.found_links>>
                  [] exit = <<FALSE, TRUE, FALSE>> ->
                        <<s.found_author_tag, s.found_author, FALSE, s.found_links>>
                  [] exit = <<FALSE, FALSE, TRUE>> /\ ListingLast.name = "ul" ->
                        <<s.found_author_tag, s.found_author, s.found_title, FALSE>>
                  [] OTHER -> LinksFlags(s)]_vars
    /\ [][(linksSink.found_links /\ ~linksSink'.found_links)
          => (ListingEnd /\ ListingLast.name = "ul")]_vars

\* C12's case: inside the list an `a` end tag was ignored and the `ul` end tag
\* then left the list.
C12_Witness ==
    /\ Len(ltokens) = 3
    /\ IsChapterListUl(ltokens[1])
    /\ ltokens[2] = EndTag("a")
    /\ ltokens[3] = EndTag("ul")
    /\ ~linksSink.found_links

\* ------------------------------------------- chapter extractor, continued

\* An end tag received by the chapter sink.
ChapterEnd == ChapterFed /\ ChapterLast.kind = "EndTag"

\* C13: on an end tag of any name, exactly the title flag set clears it,
\* exactly the body flag set clears it, neither or both set changes nothing;
\* and an end tag never changes the title or the body.
C13_ChapterRegionExit ==
    [][ChapterEnd =>
        LET s == chapterSink
        IN /\ chapterSink'.found_name = (s.found_name /\ s.found_content)
           /\ chapterSink'.found_content = (s.found_content /\ s.found_name)
           /\ chapterSink'.title = s.title
           /\ chapterSink'.text = s.text]_vars

\* C13's case: with both regions open an end tag has closed neither, and the
\* title gathered before is intact.
C13_Witness ==
    /\ Len(ctokens) = 4
    /\ HasAttr(ctokens[1], "class", StrName)
    /\ ctokens[2] = Characters(<<"C", "h", ".">>)
    /\ HasAttr(ctokens[3], "class", StrContent)
    /\ ctokens[4] = EndTag("p")
    /\ chapterSink.found_name
    /\ chapterSink.found_content
    /\ chapterSink.title = <<"C", "h", ".">>

\* C19: once found_name and found_content are both true, no token changes
\* either flag, the title or the body.
C19_BothOpenAbsorbing ==
    [][(chapterSink.found_name /\ chapterSink.found_content)
       => chapterSink' = chapterSink]_vars

\* C19's case: both regions open, then a text run and an end tag, and nothing
\* gathered or closed.
C19_Witness ==
    /\ Len(ctokens) = 4
    /\ HasAttr(ctokens[1], "class", StrName)
    /\ HasAttr(ctokens[2], "class", StrContent)
    /\ ctokens[3] = Characters(<<"x", Newline, EmSpace, "y">>)
    /\ ctokens[4] = EndTag("p")
    /\ chapterSink = [ChapterSinkDefault EXCEPT !.found_name = TRUE, !.found_content = TRUE]

\* ------------------------------------------------ listing extractor, flags

\* Two or more of found_author, found_title, found_links are true.
TwoRegionsOpen(s) ==
    \/ (s.found_author /\ s.found_title)
    \/ (s.found_author /\ s.found_links)
    \/ (s.found_title /\ s.found_links)

\* C18: once two or more of found_author, found_title, found_links are true,
\* no token clears any flag (a flag that is true stays true, so two or more
\* stay true for the rest of the page); and while found_author and found_links
\* are both true no token changes links.
C18_OverlapNeverExits ==
    /\ [][TwoRegionsOpen(linksSink)
          => /\ TwoRegionsOpen(linksSink')
             /\ \A k \in 1..4 : LinksFlags(linksSink)[k] => LinksFlags(linksSink')[k]]_vars
    /\ [][(linksSink.found_author /\ linksSink.found_links)
          => linksSink'.links = linksSink.links]_vars

\* C18's case: author region and link list both open; neither the `ul` end
\* tag nor the anchor that follows has any effect.
C18_Witness ==
    /\ Len(ltokens) = 4
    /\ IsAuthorSpan(ltokens[1])
    /\ IsStart(ltokens[2], "a")
    /\ IsChapterListUl(ltokens[3])
    /\ ltokens[4] \in {EndTag("ul"), StartTag("a", <<Attr("href", <<"/", "a">>)>>)}
    /\ linksSink.found_author
    /\ linksSink.found_links
    /\ linksSink.links = <<>>

\* C20: found_author implies found_author_tag in every state, and every step
\* leaves the links captured so far as a prefix of links.
C20_AuthorMarkedLinksAppendOnly ==
    /\ [](linksSink.found_author => linksSink.found_author_tag)
    /\ [][IsPrefix(linksSink.links, linksSink'.links)]_vars

\* C20's case: the author region entered under its marker and still active
\* two tokens later.
C20_Witness ==
    /\ Len(ltokens) = 4
    /\ IsAuthorSpan(ltokens[1])
    /\ IsStart(ltokens[2], "a")
    /\ linksSink.found_author
    /\ linksSink.found_author_tag

\* C20's other case: a list whose second link was appended behind the first.
C20_LinksWitness ==
    /\ Len(linksSink.links) = 2
    /\ linksSink.links[1] # linksSink.links[2]

\* ---------------------------------------------------------- both extractors

\* C14: a text token changes at most one accumulator of the sink that receives
\* it (author or title in the listing sink, title or body in the chapter
\* sink), changes none when both or neither of the deciding flags are true,
\* and changes no flag and not links.
C14_TextToOneRegion ==
    /\ [][(ListingFed /\ ListingLast.kind = "Characters")
          => /\ (linksSink'.author = linksSink.author \/ linksSink'.title = linksSink.title)
             /\ (linksSink.found_author = linksSink.found_title)
                => (linksSink'.author = linksSink.author /\ linksSink'.title = linksSink.title)
             /\ LinksFlags(linksSink') = LinksFlags(linksSink)
             /\ linksSink'.links = linksSink.links]_vars
    /\ [][(ChapterFed /\ ChapterLast.kind = "Characters")
          => /\ (chapterSink'.title = chapterSink.title \/ chapterSink'.text = chapterSink.text)
             /\ (chapterSink.found_name = chapterSink.found_content)
                => (chapterSink'.title = chapterSink.title /\ chapterSink'.text = chapterSink.text)
             /\ chapterSink'.found_name = chapterSink.found_name
             /\ chapterSink'.found_content = chapterSink.found_content]_vars

\* C14's case: the listing sink with the author and title regions both open
\* has received a text run and kept both fields empty.
C14_Witness ==
    /\ Len(ltokens) = 4
    /\ IsAuthorSpan(ltokens[1])
    /\ IsStart(ltokens[2], "a")
    /\ IsTitleSpan(ltokens[3])
    /\ ltokens[4] = Characters(<<"A">>)
    /\ linksSink.found_author
    /\ linksSink.found_title
    /\ linksSink.author = <<>>
    /\ linksSink.title = <<>>

\* C14's other case: the chapter sink with one region open has received a text
\* run and changed that region's accumulator alone.
C14_ChapterWitness ==
    /\ Len(ctokens) = 2
    /\ HasAttr(ctokens[1], "class", StrContent)
    /\ ctokens[2] = Characters(<<"x", Newline, EmSpace, "y">>)
    /\ chapterSink.title = <<>>
    /\ chapterSink.text # <<>>

\* ------------------------------------------------------ fetcher, continued

\* How many elements of the sequence s are x.
RECURSIVE Count(_, _)
Count(s, x) ==
    IF s = <<>> THEN 0 ELSE (IF Head(s) = x THEN 1 ELSE 0) + Count(Tail(s), x)

\* C15: a call that returned a body has slept the 900 ms courtesy delay
\* exactly once, as its last sleep, after the successful GET and after one
\* backoff for each 429 before it; a call that has not returned a body, or
\* returned an error, has not slept it.
C15_CourtesyDelayOnce ==
    /\ outcome = "body"
       => /\ fpc = "done"
          /\ Last(answers) = "ok"
          /\ Count(sleeps, 900) = 1
          /\ Last(sleeps) = 900
          /\ Len(sleeps) = Count(answers, "status429") + 1
    /\ outcome # "body" => Count(sleeps, 900) = 0

\* C15's case: a body returned after two backoffs.
C15_Witness ==
    /\ outcome = "body"
    /\ answers = <<"status429", "status429", "ok">>
    /\ sleeps = <<3000, 6000, 900>>

\* 2 to the power n.
RECURSIVE Pow2(_)
Pow2(n) == IF n = 0 THEN 1 ELSE 2 * Pow2(n - 1)

\* C16: in a call, whatever the calls before it did, the sleep after the k-th
\* 429 is 3000 * 2^(k-1) ms, the budget is 3 less the 429s received, and the
\* next backoff would be 3000 * 2^(429s received) ms: 3 and 3000 ms at the
\* start of every call.
C16_BackoffPerCall ==
    fpc # "idle"
    => LET n == Count(answers, "status429")
       IN /\ \A k \in 1..n : answers[k] = "status429" /\ sleeps[k] = 3000 * Pow2(k - 1)
          /\ retries = 3 - n
          /\ delay = 3000 * Pow2(n)
          /\ (answers = <<>> => (retries = 3 /\ delay = 3000 /\ sleeps = <<>>))

\* C16's case: a call that slept 3000, 6000 and 12000 ms after a call that had
\* itself received 429s.
C16_Witness ==
    /\ history # <<>>
    /\ Count(history[1].answers, "status429") = 2
    /\ answers = <<"status429", "status429", "status429">>
    /\ sleeps = <<3000, 6000, 12000>>
    /\ retries = 0

\* C17: every call ends, and a call that has ended has issued at least 1 and
\* at most 3 GETs and has exactly one of the three outcomes: a body, a non-429
\* error, the exhausted budget.
C17_CallTerminates ==
    /\ (fpc \in {"loop", "get"}) ~> (fpc = "done")
    /\ [](fpc = "done"
          => /\ Len(answers) \in 1..3
             /\ outcome \in {"body", "error", "exhausted"})
    /\ [](fpc \in {"loop", "get"} => (outcome = "none" /\ Len(answers) <= 3))

\* C17's case: a call ended by the budget after three GETs.
C17_Witness ==
    /\ fpc = "done"
    /\ Len(answers) = 3
    /\ outcome = "exhausted"
    /\ Len(requests) = 3

====
